---- MODULE Spec2Model ----
(***************************************************************************)
(* Model of the URL shortener service of src/src/main.rs:                  *)
(* UrlShortenerService with its command handlers                           *)
(* (handle_create_short_link, handle_redirect, handle_change_short_link),  *)
(* its query handler (get_stats), the slug generator and validate_url.     *)
(*                                                                         *)
(* Strings (Slug.0, Url.0) are sequences of one-character strings.         *)
(* Option<T> is a sequence of length 0 (None) or 1 (Some).                 *)
(***************************************************************************)
EXTENDS Integers, Sequences, FiniteSets, TLC

VARIABLES
    map,            \* UrlShortenerService.map   : HashMap<Slug, ShortLink>
    stats,          \* UrlShortenerService.stats : HashMap<Slug, Stats>
    slug_alphabet,  \* UrlShortenerService.slug_alphabet : Vec<char>
    pc,             \* position of the single thread of control
    cand,           \* the local `slug` of generate_unique_slug's loop
    ret,            \* the call in flight or the last call and what it returned
    lastWrite,      \* history: slug -> url of its latest successful write
    nRedirects      \* history: slug -> number of successful redirects

vars == <<map, stats, slug_alphabet, pc, cand, ret, lastWrite, nRedirects>>

(***************************************************************************)
(* Bounds of the model.                                                    *)
(***************************************************************************)
\* cap on each redirect counter (the code's u64 counter is never near its end)
MaxRedirects == 2
\* number of outcomes of the random draw that are explored
MaxDraw == 2
\* longest tail appended to a prefix to build validate_url's test strings
MaxTail == 3

(***************************************************************************)
(* Strings.                                                                *)
(***************************************************************************)
Http == <<"h", "t", "t", "p", ":", "/", "/">>
Https == <<"h", "t", "t", "p", "s", ":", "/", "/">>
SchemeSep == <<":", "/", "/">>

\* str::starts_with
starts_with(s, p) == Len(p) <= Len(s) /\ SubSeq(s, 1, Len(p)) = p

\* index of the first occurrence of pat in s, 0 when there is none (str::find)
find(s, pat) ==
    LET hits == {i \in 1..(Len(s) - Len(pat) + 1) :
                    SubSeq(s, i, i + Len(pat) - 1) = pat}
    IN IF hits = {} THEN 0 ELSE CHOOSE i \in hits : \A j \in hits : i <= j

\* str::split(pat) collected: the pieces between the non-overlapping matches
RECURSIVE split(_, _)
split(s, pat) ==
    LET i == find(s, pat)
    IN IF i = 0 THEN <<s>>
       ELSE <<SubSeq(s, 1, i - 1)>> \o split(SubSeq(s, i + Len(pat), Len(s)), pat)

\* Iterator::nth (0-based) as an Option
nth(seq, n) == IF Len(seq) > n THEN <<seq[n + 1]>> ELSE <<>>

\* validate_url without the domain check
validate_url_prefix_only(url) == starts_with(url, Http) \/ starts_with(url, Https)

validate_url(url) ==
    IF ~starts_with(url, Http) /\ ~starts_with(url, Https)
    THEN FALSE
    ELSE LET domain_part == nth(split(url, SchemeSep), 1)
         IN IF domain_part # <<>> THEN domain_part[1] # <<>> ELSE FALSE

(***************************************************************************)
(* Values.                                                                 *)
(***************************************************************************)
ShortLink(slug, url) == [slug |-> slug, url |-> url]
NoLink == ShortLink(<<>>, <<>>)
NoStats == [link |-> NoLink, redirects |-> 0]

Ret(op, slug, url, res, link, st) ==
    [op |-> op, slug |-> slug, url |-> url, res |-> res, link |-> link, stats |-> st]
Err(op, slug, url, e) == Ret(op, slug, url, e, NoLink, NoStats)

\* the alphabet of the 62 letters and digits
alphabet_62 ==
    << "a", "A", "b", "B", "c", "C", "d", "D", "e", "E", "f", "F", "g", "G",
       "h", "H", "i", "I", "j", "J", "k", "K", "l", "L", "m", "M", "n", "N",
       "o", "O", "p", "P", "q", "Q", "r", "R", "s", "S", "t", "T", "u", "U",
       "v", "V", "w", "W", "x", "X", "y", "Y", "z", "Z",
       "0", "1", "2", "3", "4", "5", "6", "7", "8", "9" >>

\* the literal of UrlShortenerService::new
alphabet_literal ==
    << "a", "A", "b", "B", "c", "C", "d", "D", "e", "E", "f", "F", "g", "G",
       "h", "H", "j", "J", "k", "K", "m", "M", "n", "N", "p", "P", "q", "Q",
       "r", "R", "s", "S", "t", "T", "u", "U", "v", "V", "w", "W", "x", "X",
       "y", "Y", "z", "Z",
       "0", "1", "2", "3", "4", "5", "6", "7", "8", "9" >>

\* length of a generated slug: choose_multiple(&mut rng, 6)
SlugLen == 6

(***************************************************************************)
(* Inputs.                                                                 *)
(***************************************************************************)
UrlA == Http \o <<"a">>
UrlB == Https \o <<"b">>
\* two valid URLs and one that has the scheme but no domain
Urls == {UrlA, UrlB, Http}

\* the slug a caller supplies: one the generator can draw too
SuppliedSlugs == {<<"a", "A", "b", "B", "c", "C">>}

(***************************************************************************)
(* Slug generator.                                                         *)
(***************************************************************************)
\* the index sequences the random draw may produce: amount distinct positions
\* of a slice of length n (explored: the windows at the first MaxDraw offsets)
draw_indices(n, amount) ==
    IF amount > n THEN {[k \in 1..n |-> k]}
    ELSE {[k \in 1..amount |-> off + k] :
            off \in 0..(IF MaxDraw - 1 < n - amount THEN MaxDraw - 1 ELSE n - amount)}

\* a draw that takes the same position every time (sampling with replacement)
choose_multiple_repeating(slice, amount) ==
    {[k \in 1..amount |-> slice[d[1]]] : d \in draw_indices(Len(slice), amount)}

\* slice.choose_multiple(&mut rng, amount), collected
choose_multiple(slice, amount) ==
    {[k \in DOMAIN d |-> slice[d[k]]] : d \in draw_indices(Len(slice), amount)}

\* a loop exit that accepts every candidate
accept_any(slug) == TRUE

\* an exit test with the condition inverted
candidate_is_taken(slug) == slug \in DOMAIN map

\* the exit test of generate_unique_slug's loop
candidate_is_free(slug) == slug \notin DOMAIN map

(***************************************************************************)
(* Initial state: UrlShortenerService::new().                              *)
(***************************************************************************)
NoCall == Err("none", <<>>, <<>>, "none")

Init ==
    /\ map = <<>>
    /\ stats = <<>>
    /\ slug_alphabet = alphabet_literal
    /\ pc = "idle"
    /\ cand = <<>>
    /\ ret = NoCall
    /\ lastWrite = <<>>
    /\ nRedirects = <<>>

(***************************************************************************)
(* handle_create_short_link.                                               *)
(***************************************************************************)
\* a uniqueness check that never finds the slug
slug_never_in_use(slug) == FALSE

\* "Slug must be unique": self.map.contains_key(&slug)
slug_in_use(slug) == slug \in DOMAIN map

\* self.map.insert(slug.clone(), link.clone())
insert_link(slug, link) == (slug :> link) @@ map

\* a creation that stores no stats entry
insert_no_stats(slug, link) == stats

\* a creation whose counter starts at one
insert_stats_from_one(slug, link) == (slug :> [link |-> link, redirects |-> 1]) @@ stats

\* a creation that files the stats entry under the URL instead of the slug
insert_stats_by_url(slug, link) == (link.url :> [link |-> link, redirects |-> 0]) @@ stats

\* self.stats.insert(slug.clone(), Stats { link: link.clone(), redirects: 0 })
insert_stats(slug, link) == (slug :> [link |-> link, redirects |-> 0]) @@ stats

\* the part of handle_create_short_link that follows the choice of the slug:
\* arg is the Option<Slug> the caller passed, slug the slug after unwrap_or_else
create_with_slug(url, arg, slug) ==
    IF slug_in_use(slug)
    THEN /\ ret' = Err("create", arg, url, "SlugAlreadyInUse")
         /\ UNCHANGED <<map, stats, lastWrite, nRedirects>>
    ELSE LET link == ShortLink(slug, url)
         IN /\ map' = insert_link(slug, link)
            /\ stats' = insert_stats(slug, link)
            /\ ret' = Ret("create", arg, url, "Ok", link, NoStats)
            /\ lastWrite' = (slug :> url) @@ lastWrite
            /\ nRedirects' = (slug :> 0) @@ nRedirects

\* a creation that tests the slug's uniqueness before it validates the URL
CreateSuppliedSlugFirst(url, slug) ==
    /\ pc = "idle"
    /\ IF slug_in_use(slug)
       THEN /\ ret' = Err("create", <<slug>>, url, "SlugAlreadyInUse")
            /\ UNCHANGED <<map, stats, lastWrite, nRedirects>>
       ELSE IF ~validate_url(url)
            THEN /\ ret' = Err("create", <<slug>>, url, "InvalidUrl")
                 /\ UNCHANGED <<map, stats, lastWrite, nRedirects>>
            ELSE create_with_slug(url, <<slug>>, slug)
    /\ UNCHANGED <<slug_alphabet, pc, cand>>

\* handle_create_short_link(url, Some(slug)), the whole call
CreateSupplied(url, slug) ==
    /\ pc = "idle"
    /\ IF ~validate_url(url)
       THEN /\ ret' = Err("create", <<slug>>, url, "InvalidUrl")
            /\ UNCHANGED <<map, stats, lastWrite, nRedirects>>
       ELSE create_with_slug(url, <<slug>>, slug)
    /\ UNCHANGED <<slug_alphabet, pc, cand>>

\* handle_create_short_link(url, None) up to the entry of the generator's loop
CreateGeneratedBegin(url) ==
    /\ pc = "idle"
    /\ IF ~validate_url(url)
       THEN /\ ret' = Err("create", <<>>, url, "InvalidUrl")
            /\ pc' = pc
       ELSE /\ ret' = Err("create", <<>>, url, "Pending")
            /\ pc' = "generate"
    /\ UNCHANGED <<map, stats, slug_alphabet, cand, lastWrite, nRedirects>>

\* one turn of generate_unique_slug's loop; on exit, the rest of the call
GenerateDraw ==
    /\ pc = "generate"
    /\ \E slug \in choose_multiple(slug_alphabet, SlugLen) :
          IF candidate_is_free(slug)
          THEN /\ create_with_slug(ret.url, <<>>, slug)
               /\ pc' = "idle"
               /\ cand' = <<>>
          ELSE /\ cand' = slug
               /\ UNCHANGED <<map, stats, pc, ret, lastWrite, nRedirects>>
    /\ UNCHANGED slug_alphabet

(***************************************************************************)
(* handle_redirect.                                                        *)
(***************************************************************************)
\* a redirect that answers from the stats entry's copy of the link
handle_redirect_from_stats(slug) ==
    IF slug \in DOMAIN map
    THEN IF slug \in DOMAIN stats
         THEN Ret("redirect", <<slug>>, <<>>, "Ok", stats[slug].link, NoStats)
         ELSE Err("redirect", <<slug>>, <<>>, "Panic")
    ELSE Err("redirect", <<slug>>, <<>>, "SlugNotFound")

\* what handle_redirect(slug) returns: unwrap() of a missing stats entry panics
handle_redirect_ret(slug) ==
    IF slug \in DOMAIN map
    THEN IF slug \in DOMAIN stats
         THEN Ret("redirect", <<slug>>, <<>>, "Ok", map[slug], NoStats)
         ELSE Err("redirect", <<slug>>, <<>>, "Panic")
    ELSE Err("redirect", <<slug>>, <<>>, "SlugNotFound")

\* a redirect that leaves the counter alone
no_count(slug) == stats

\* a redirect that counts every slug's entry, not only the one looked up
count_all(slug) == [s \in DOMAIN stats |-> [stats[s] EXCEPT !.redirects = @ + 1]]

\* self.stats.get_mut(&slug).unwrap().redirects += 1
count_redirect(slug) == [stats EXCEPT ![slug].redirects = @ + 1]

HandleRedirect(slug) ==
    /\ pc = "idle"
    /\ slug \in DOMAIN stats => stats[slug].redirects < MaxRedirects
    /\ LET r == handle_redirect_ret(slug)
       IN /\ ret' = r
          /\ pc' = IF r.res = "Panic" THEN "panicked" ELSE pc
          /\ IF r.res = "Ok"
             THEN /\ stats' = count_redirect(slug)
                  /\ nRedirects' = [nRedirects EXCEPT ![slug] = @ + 1]
             ELSE UNCHANGED <<stats, nRedirects>>
    /\ UNCHANGED <<map, slug_alphabet, cand, lastWrite>>

(***************************************************************************)
(* handle_change_short_link.                                               *)
(***************************************************************************)
\* a change that stores a fresh link built from the new URL alone
set_url_fresh_link(slug, new_url) == [map EXCEPT ![slug] = ShortLink(new_url, new_url)]

\* link.url = new_url
set_url(slug, new_url) == [map EXCEPT ![slug].url = new_url]

\* a change that looks the slug up before it validates the URL
handle_change_lookup_first(slug, new_url) ==
    IF slug \notin DOMAIN map
    THEN Err("change", <<slug>>, new_url, "SlugNotFound")
    ELSE IF ~validate_url(new_url)
         THEN Err("change", <<slug>>, new_url, "InvalidUrl")
         ELSE Ret("change", <<slug>>, new_url, "Ok", set_url(slug, new_url)[slug], NoStats)

\* a change that returns the link as cloned before the assignment
handle_change_returns_old(slug, new_url) ==
    IF ~validate_url(new_url)
    THEN Err("change", <<slug>>, new_url, "InvalidUrl")
    ELSE IF slug \in DOMAIN map
         THEN Ret("change", <<slug>>, new_url, "Ok", map[slug], NoStats)
         ELSE Err("change", <<slug>>, new_url, "SlugNotFound")

\* what handle_change_short_link(slug, new_url) returns
handle_change_ret(slug, new_url) ==
    IF ~validate_url(new_url)
    THEN Err("change", <<slug>>, new_url, "InvalidUrl")
    ELSE IF slug \in DOMAIN map
         THEN Ret("change", <<slug>>, new_url, "Ok", set_url(slug, new_url)[slug], NoStats)
         ELSE Err("change", <<slug>>, new_url, "SlugNotFound")

\* a change that writes the URL before it validates it
HandleChangeWriteFirst(slug, new_url) ==
    /\ pc = "idle"
    /\ LET r == handle_change_ret(slug, new_url)
       IN /\ ret' = r
          /\ map' = IF slug \in DOMAIN map THEN set_url(slug, new_url) ELSE map
          /\ lastWrite' = IF r.res = "Ok"
                          THEN [lastWrite EXCEPT ![slug] = new_url]
                          ELSE lastWrite
    /\ UNCHANGED <<stats, slug_alphabet, pc, cand, nRedirects>>

HandleChange(slug, new_url) ==
    /\ pc = "idle"
    /\ LET r == handle_change_ret(slug, new_url)
       IN /\ ret' = r
          /\ IF r.res = "Ok"
             THEN /\ map' = set_url(slug, new_url)
                  /\ lastWrite' = [lastWrite EXCEPT ![slug] = new_url]
             ELSE UNCHANGED <<map, lastWrite>>
    /\ UNCHANGED <<stats, slug_alphabet, pc, cand, nRedirects>>

(***************************************************************************)
(* get_stats.                                                              *)
(***************************************************************************)
\* a query that answers a default for a slug it does not know
get_stats_or_default(slug) ==
    IF slug \in DOMAIN map /\ slug \in DOMAIN stats
    THEN Ret("get_stats", <<slug>>, <<>>, "Ok", NoLink, stats[slug])
    ELSE Ret("get_stats", <<slug>>, <<>>, "Ok", NoLink, NoStats)

\* a query that counts itself as a redirect
GetStatsCounting(slug) ==
    /\ pc = "idle"
    /\ slug \in DOMAIN stats => stats[slug].redirects < MaxRedirects
    /\ ret' = IF slug \in DOMAIN map /\ slug \in DOMAIN stats
              THEN Ret("get_stats", <<slug>>, <<>>, "Ok", NoLink, stats[slug])
              ELSE Err("get_stats", <<slug>>, <<>>, "SlugNotFound")
    /\ stats' = IF slug \in DOMAIN map /\ slug \in DOMAIN stats
                THEN [stats EXCEPT ![slug].redirects = @ + 1]
                ELSE stats
    /\ UNCHANGED <<map, slug_alphabet, pc, cand, lastWrite, nRedirects>>

\* what get_stats(slug) returns: unwrap() of a missing stats entry panics
get_stats(slug) ==
    IF slug \in DOMAIN map
    THEN IF slug \in DOMAIN stats
         THEN Ret("get_stats", <<slug>>, <<>>, "Ok", NoLink, stats[slug])
         ELSE Err("get_stats", <<slug>>, <<>>, "Panic")
    ELSE Err("get_stats", <<slug>>, <<>>, "SlugNotFound")

GetStats(slug) ==
    /\ pc = "idle"
    /\ ret' = get_stats(slug)
    /\ pc' = IF ret'.res = "Panic" THEN "panicked" ELSE pc
    /\ UNCHANGED <<map, stats, slug_alphabet, cand, lastWrite, nRedirects>>

(***************************************************************************)
(* The service under any sequence of calls.                                *)
(***************************************************************************)
\* every slug a call may name: the supplied ones and the generator's outcomes
Slugs == SuppliedSlugs \cup choose_multiple(slug_alphabet, SlugLen)

Next ==
    \/ \E url \in Urls, slug \in SuppliedSlugs : CreateSupplied(url, slug)
    \/ \E url \in Urls : CreateGeneratedBegin(url)
    \/ GenerateDraw
    \/ \E slug \in Slugs : HandleRedirect(slug)
    \/ \E slug \in Slugs, url \in Urls : HandleChange(slug, url)
    \/ \E slug \in Slugs : GetStats(slug)

Spec == Init /\ [][Next]_vars

\* the turn of the loop that draws a candidate absent from the map and returns
GenerateExit == GenerateDraw /\ pc' = "idle"

\* the service with fair random draws: the loop keeps turning, and a draw that
\* stays possible at every turn is eventually made
SpecFair == Init /\ [][Next]_vars /\ WF_vars(GenerateExit)

(***************************************************************************)
(* validate_url on its own: a test string is drawn, then validated.        *)
(***************************************************************************)
TailChars == {":", "/", "a"}
Tails == UNION {[1..n -> TailChars] : n \in 0..MaxTail}
Prefixes ==
    { Http, Https, <<>>,
      <<"f", "t", "p">> \o SchemeSep,
      <<"h", "t", "t", "p", ":", "/">>,
      <<"h", "t", "t", "p", "s", ":", "/">>,
      <<"x">> \o Http,
      <<"a", "b", "c">> }
TestStrings == {p \o t : p \in Prefixes, t \in Tails}

InitValidate ==
    /\ map = <<>>
    /\ stats = <<>>
    /\ slug_alphabet = alphabet_literal
    /\ pc = "idle"
    /\ cand = <<>>
    /\ ret \in {Err("validate_url", <<>>, u, "Pending") : u \in TestStrings}
    /\ lastWrite = <<>>
    /\ nRedirects = <<>>

ValidateUrl ==
    /\ ret.op = "validate_url"
    /\ ret.res = "Pending"
    /\ ret' = [ret EXCEPT !.res = IF validate_url(ret.url) THEN "true" ELSE "false"]
    /\ UNCHANGED <<map, stats, slug_alphabet, pc, cand, lastWrite, nRedirects>>

NextValidate == ValidateUrl

SpecValidate == InitValidate /\ [][NextValidate]_vars

(***************************************************************************)
(* Properties.                                                             *)
(***************************************************************************)
Range(f) == {f[i] : i \in DOMAIN f}

\* C1: in every reachable state the link inside each slug's Stats entry has
\* the url of the ShortLink the link map holds for that slug; after a
\* successful handle_change_short_link(slug, u2), get_stats(slug) returns
\* Stats whose link.url is u2.
C1_StatsLinkMirrorsMap ==
    /\ \A s \in DOMAIN map :
          s \in DOMAIN stats /\ stats[s].link.url = map[s].url
    /\ (ret.op = "change" /\ ret.res = "Ok")
          => get_stats(ret.slug[1]).stats.link.url = ret.url

\* C2: for every created slug, get_stats succeeds and reports as redirects
\* the number of successful handle_redirect calls for that slug since its
\* creation, whatever was interleaved; right after a creation it reports 0.
C2_RedirectsCounted ==
    /\ \A s \in DOMAIN nRedirects :
          /\ get_stats(s).res = "Ok"
          /\ get_stats(s).stats.redirects = nRedirects[s]
    /\ (ret.op = "get_stats" /\ ret.res = "Ok")
          => /\ ret.slug[1] \in DOMAIN nRedirects
             /\ ret.stats.redirects = nRedirects[ret.slug[1]]
    /\ (ret.op = "create" /\ ret.res = "Ok")
          => get_stats(ret.link.slug).stats.redirects = 0

\* C2's case: get_stats has returned a count of at least one for a slug whose
\* URL was changed in between.
C2_Witness ==
    /\ ret.op = "get_stats" /\ ret.res = "Ok"
    /\ ret.stats.redirects >= 1
    /\ map[ret.slug[1]].url # ret.stats.link.url

\* C3: handle_create_short_link with a valid URL and a supplied slug that is
\* already in the registry returns SlugAlreadyInUse, and the step leaves that
\* slug's link (its url) and its stats (its redirect counter) as they were.
C3_CreateExistingRefused ==
    [][\A s \in DOMAIN map :
          (ret'.op = "create" /\ ret'.slug = <<s>> /\ validate_url(ret'.url))
             => /\ ret'.res = "SlugAlreadyInUse"
                /\ s \in DOMAIN map' /\ map'[s] = map[s]
                /\ s \in DOMAIN stats /\ s \in DOMAIN stats'
                /\ stats'[s] = stats[s]]_vars

\* C3's case: a creation was refused for a slug that has been redirected and
\* whose stored URL differs from the URL of the refused call.
C3_Witness ==
    /\ ret.op = "create" /\ ret.res = "SlugAlreadyInUse"
    /\ validate_url(ret.url)
    /\ map[ret.slug[1]].url # ret.url
    /\ stats[ret.slug[1]].redirects >= 1

\* C4: a successful handle_redirect(s) returns the ShortLink with slug s and
\* the URL of the latest successful write for s (its creation, or the latest
\* successful handle_change_short_link).
C4_RedirectReturnsLatestUrl ==
    /\ \A s \in DOMAIN lastWrite :
          /\ handle_redirect_ret(s).res = "Ok"
          /\ handle_redirect_ret(s).link = ShortLink(s, lastWrite[s])
    /\ (ret.op = "redirect" /\ ret.res = "Ok")
          => /\ ret.slug[1] \in DOMAIN lastWrite
             /\ ret.link = ShortLink(ret.slug[1], lastWrite[ret.slug[1]])

\* C4's case: a redirect has returned a URL that is not the URL of creation.
C4_Witness ==
    /\ ret.op = "redirect" /\ ret.res = "Ok"
    /\ ret.link.url # stats[ret.slug[1]].link.url

\* C5: for a slug that was never successfully created, handle_redirect,
\* handle_change_short_link with a valid URL and get_stats return SlugNotFound.
C5_NeverCreatedNotFound ==
    /\ \A s \in Slugs \ DOMAIN lastWrite :
          /\ handle_redirect_ret(s).res = "SlugNotFound"
          /\ get_stats(s).res = "SlugNotFound"
          /\ \A u \in Urls :
                validate_url(u) => handle_change_ret(s, u).res = "SlugNotFound"
    /\ ( /\ ret.op \in {"redirect", "change", "get_stats"}
         /\ ret.slug[1] \notin DOMAIN lastWrite
         /\ ret.op = "change" => validate_url(ret.url) )
          => ret.res = "SlugNotFound"

\* C5's case: get_stats has answered SlugNotFound while other slugs exist.
C5_Witness ==
    /\ ret.op = "get_stats" /\ ret.res = "SlugNotFound"
    /\ DOMAIN map # {}

\* C6: the link map and the stats map have the same set of slug keys in
\* every reachable state.
C6_SameKeys == DOMAIN map = DOMAIN stats

\* C6's case: two records have been created.
C6_Witness == Cardinality(DOMAIN map) >= 2 /\ pc = "idle"

\* the reading of C7: a scheme prefix followed by any non-empty remainder
HasSchemeAndRemainder(u) ==
    \E p \in {Http, Https} : starts_with(u, p) /\ Len(u) > Len(p)

\* a scheme prefix followed by a non-empty remainder that does not itself
\* begin with "://"
HasSchemeAndDomain(u) ==
    \E p \in {Http, Https} :
        /\ starts_with(u, p)
        /\ Len(u) > Len(p)
        /\ ~starts_with(SubSeq(u, Len(p) + 1, Len(u)), SchemeSep)

\* C7 as stated: validate_url(u) is true exactly when u begins with "http://"
\* or "https://" and the remainder after that prefix is non-empty.
C7_AnyRemainderAccepted ==
    (ret.op = "validate_url" /\ ret.res # "Pending")
       => (ret.res = "true" <=> HasSchemeAndRemainder(ret.url))

\* C7 as amended: validate_url(u) is true exactly when u begins with
\* "http://" or "https://" and the remainder after that prefix is non-empty
\* and does not begin with "://".
C7_ValidateUrl ==
    (ret.op = "validate_url" /\ ret.res # "Pending")
       => (ret.res = "true" <=> HasSchemeAndDomain(ret.url))

\* C7's case: a string with a scheme prefix and a non-empty remainder that
\* begins with "://" has been rejected.
C7_Witness ==
    /\ ret.op = "validate_url" /\ ret.res = "false"
    /\ HasSchemeAndRemainder(ret.url)

\* C8: handle_change_short_link with an invalid new_url returns InvalidUrl
\* whether or not the slug exists, never SlugNotFound.
C8_InvalidUrlBeforeLookup ==
    /\ \A s \in Slugs, u \in Urls :
          ~validate_url(u) => handle_change_ret(s, u).res = "InvalidUrl"
    /\ (ret.op = "change" /\ ~validate_url(ret.url)) => ret.res = "InvalidUrl"

\* C8's case: a change with an invalid URL against a slug that does not exist
\* has returned InvalidUrl.
C8_Witness ==
    /\ ret.op = "change" /\ ret.res = "InvalidUrl"
    /\ ret.slug[1] \notin DOMAIN map

\* C9: when handle_create_short_link with a valid URL and no slug returns, it
\* returns Ok, and the returned slug was absent from the registry before the
\* call, has exactly 6 characters, all of the generator alphabet, none twice.
C9_GeneratedSlug ==
    [][(ret'.op = "create" /\ ret'.slug = <<>> /\ validate_url(ret'.url)
          /\ ret'.res # "Pending")
         => /\ ret'.res = "Ok"
            /\ ret'.link.slug \notin DOMAIN map
            /\ Len(ret'.link.slug) = 6
            /\ \A i \in DOMAIN ret'.link.slug :
                  ret'.link.slug[i] \in Range(slug_alphabet)
            /\ \A i, j \in DOMAIN ret'.link.slug :
                  ret'.link.slug[i] = ret'.link.slug[j] => i = j]_vars

\* C9's case: a creation without a slug has returned while the slug the
\* generator could also have drawn was taken.
C9_Witness ==
    /\ ret.op = "create" /\ ret.slug = <<>> /\ ret.res = "Ok"
    /\ SuppliedSlugs \subseteq DOMAIN map
    /\ ret.link.slug \notin SuppliedSlugs

Upper == {"A", "B", "C", "D", "E", "F", "G", "H", "I", "J", "K", "L", "M",
          "N", "O", "P", "Q", "R", "S", "T", "U", "V", "W", "X", "Y", "Z"}
Lower == {"a", "b", "c", "d", "e", "f", "g", "h", "i", "j", "k", "l", "m",
          "n", "o", "p", "q", "r", "s", "t", "u", "v", "w", "x", "y", "z"}
Digits == {"0", "1", "2", "3", "4", "5", "6", "7", "8", "9"}
Lookalikes == {"i", "I", "l", "L", "o", "O"}
EachOnce(seq) == Cardinality(Range(seq)) = Len(seq)

C11_GetStatsPureRead ==
    [][ret'.op = "get_stats"
         => /\ map' = map
            /\ stats' = stats
            /\ \A s \in Slugs : ret'.slug = <<s>> => get_stats(s)' = ret']_vars

\* C11's case: get_stats has succeeded for a slug that was redirected, and it
\* has failed for another.
C11_Witness ==
    /\ ret.op = "get_stats" /\ ret.res = "Ok"
    /\ ret.stats.redirects = MaxRedirects
    /\ Slugs \ DOMAIN map # {}

\* C12: across every step, the redirect counter of each existing slug s stays
\* the same or grows by exactly 1, and it grows exactly when the step is a
\* successful handle_redirect(s); no other step changes it and it never
\* decreases.
C12_CounterSteps ==
    [][\A s \in DOMAIN stats :
          /\ s \in DOMAIN stats'
          /\ \/ stats'[s].redirects = stats[s].redirects
             \/ stats'[s].redirects = stats[s].redirects + 1
          /\ stats'[s].redirects = stats[s].redirects + 1
                <=> (ret'.op = "redirect" /\ ret'.slug = <<s>> /\ ret'.res = "Ok")]_vars

\* C12's case: a slug has been redirected while another existing slug's
\* counter stayed at 0.
C12_Witness ==
    /\ ret.op = "redirect" /\ ret.res = "Ok"
    /\ stats[ret.slug[1]].redirects = MaxRedirects
    /\ \E t \in DOMAIN stats : stats[t].redirects = 0

\* C13: a successful handle_create_short_link(url, slug) adds exactly one new
\* slug, stores for it the ShortLink {slug, url} and a Stats entry with that
\* link and redirects 0, returns that ShortLink, and leaves the links and
\* stats of all slugs that existed before as they were.
C13_CreateEffect ==
    [][(ret'.op = "create" /\ ret'.res = "Ok")
         => \E s \in Slugs :
               /\ s = ret'.link.slug
               /\ ret'.slug # <<>> => ret'.slug = <<s>>
               /\ s \notin DOMAIN map /\ s \notin DOMAIN stats
               /\ DOMAIN map' = DOMAIN map \cup {s}
               /\ DOMAIN stats' = DOMAIN stats \cup {s}
               /\ map'[s] = ShortLink(s, ret'.url)
               /\ stats'[s] = [link |-> ShortLink(s, ret'.url), redirects |-> 0]
               /\ ret'.link = ShortLink(s, ret'.url)
               /\ \A t \in DOMAIN map :
                     map'[t] = map[t] /\ stats'[t] = stats[t]]_vars

\* C13's case: a creation with a supplied slug has succeeded while another
\* record, already redirected and changed, existed.
C13_Witness ==
    /\ ret.op = "create" /\ ret.res = "Ok" /\ ret.slug # <<>>
    /\ \E t \in DOMAIN map :
          /\ t # ret.link.slug
          /\ stats[t].redirects >= 1
          /\ map[t].url # stats[t].link.url

\* C14: no operation fails with a panic: in every reachable state
\* handle_redirect and get_stats on a slug of the link map find its Stats
\* entry, and every call has returned Ok or one of the three ShortenerError
\* values.
C14_NoPanic ==
    /\ pc # "panicked"
    /\ ret.res \in {"none", "Pending", "Ok",
                    "InvalidUrl", "SlugAlreadyInUse", "SlugNotFound"}
    /\ \A s \in DOMAIN map :
          /\ handle_redirect_ret(s).res = "Ok"
          /\ get_stats(s).res = "Ok"

\* C14's case: a redirect of a generated slug has found its stats entry.
C14_Witness ==
    /\ ret.op = "redirect" /\ ret.res = "Ok"
    /\ ret.slug[1] \notin SuppliedSlugs
    /\ stats[ret.slug[1]].redirects >= 1

\* the ShortLink under key s and the link inside the Stats under key s both
\* carry the slug s
SlugFieldsMatchKeys ==
    /\ \A s \in DOMAIN map : map[s].slug = s
    /\ \A s \in DOMAIN stats : stats[s].link.slug = s

\* C15: records are never deleted and slugs never rewritten: a slug present
\* in the registry is present after every step, and in every reachable state
\* the ShortLink and the Stats link stored under key s have slug field s.
C15_RecordsKept ==
    /\ SlugFieldsMatchKeys
    /\ [][/\ DOMAIN map \subseteq DOMAIN map'
          /\ DOMAIN stats \subseteq DOMAIN stats'
          /\ SlugFieldsMatchKeys']_vars

\* C15's case: two records exist, one of them after a change of its URL and
\* a redirect.
C15_Witness ==
    /\ Cardinality(DOMAIN map) >= 2
    /\ \E s \in DOMAIN map :
          map[s].url # stats[s].link.url /\ stats[s].redirects = MaxRedirects

\* C16: handle_create_short_link with an invalid URL returns InvalidUrl
\* whatever the slug argument: with a supplied slug that exists it is
\* InvalidUrl and not SlugAlreadyInUse, and with no slug the call has failed
\* without entering the slug generator.
C16_CreateInvalidUrl ==
    (ret.op = "create" /\ ~validate_url(ret.url))
       => /\ ret.res = "InvalidUrl"
          /\ pc = "idle"
          /\ cand = <<>>

\* C16's case: a creation with an invalid URL and an existing supplied slug
\* has been refused.
C16_Witness ==
    /\ ret.op = "create" /\ ret.res = "InvalidUrl"
    /\ ret.slug # <<>>
    /\ ret.slug[1] \in DOMAIN map

\* C16's second case: a creation with an invalid URL and no slug has been
\* refused.
C16_WitnessNoSlug ==
    /\ ret.op = "create" /\ ret.res = "InvalidUrl"
    /\ ret.slug = <<>>

\* some candidate the generator can draw is absent from the registry
FreeCandidate == \E c \in choose_multiple(slug_alphabet, SlugLen) : c \notin DOMAIN map

\* C17: under fair random draws, slug generation entered while a candidate is
\* absent from the registry ends and the creation returns Ok; the loop
\* repeats only when the drawn candidate is already present, and it has no
\* cap: with no candidate absent it never leaves the loop.
C17_GenerationTerminates ==
    /\ (pc = "generate" /\ FreeCandidate)
          ~> (pc = "idle" /\ ret.op = "create" /\ ret.slug = <<>> /\ ret.res = "Ok")
    /\ [][(pc = "generate" /\ pc' = "generate" /\ cand' # cand)
             => cand' \in DOMAIN map]_vars
    /\ [][(pc = "generate" /\ ~FreeCandidate) => pc' = "generate"]_vars

\* C17's case: the loop has drawn a candidate that was present and repeats,
\* while another candidate is absent.
C17_Witness ==
    /\ pc = "generate"
    /\ cand \in DOMAIN map
    /\ FreeCandidate

\* C18: every operation that returns an error (InvalidUrl, SlugAlreadyInUse
\* or SlugNotFound) leaves the link map and the stats map exactly as they
\* were before the call.
C18_ErrorsChangeNothing ==
    [][ret'.res \in {"InvalidUrl", "SlugAlreadyInUse", "SlugNotFound"}
         => (map' = map /\ stats' = stats)]_vars

\* C18's case: a change with an invalid URL against an existing, redirected
\* slug has been refused.
C18_Witness ==
    /\ ret.op = "change" /\ ret.res = "InvalidUrl"
    /\ ret.slug[1] \in DOMAIN map
    /\ stats[ret.slug[1]].redirects >= 1

\* C19: a successful handle_change_short_link(s, new_url) changes no other
\* slug's record, adds and removes no slug, and leaves every redirect counter
\* (that of s too) as it was; the ShortLink it returns, and the one it
\* stores, has slug s and url new_url.
C19_ChangeEffect ==
    [][(ret'.op = "change" /\ ret'.res = "Ok")
         => \E s \in DOMAIN map :
               /\ ret'.slug = <<s>>
               /\ DOMAIN map' = DOMAIN map
               /\ DOMAIN stats' = DOMAIN stats
               /\ \A t \in DOMAIN map \ {s} :
                     map'[t] = map[t] /\ stats'[t] = stats[t]
               /\ \A t \in DOMAIN stats :
                     stats'[t].redirects = stats[t].redirects
               /\ ret'.link = ShortLink(s, ret'.url)
               /\ map'[s] = ShortLink(s, ret'.url)]_vars

\* C19's case: the URL of a redirected slug has been changed to another URL
\* while a second record existed.
C19_Witness ==
    /\ ret.op = "change" /\ ret.res = "Ok"
    /\ ret.url # stats[ret.slug[1]].link.url
    /\ stats[ret.slug[1]].redirects >= 1
    /\ Cardinality(DOMAIN map) >= 2

====
